---- MODULE Spec2Model ----
(***************************************************************************)
(* A model of pkg/oauth/api/validation/validation.go: the validators of    *)
(* OAuth access tokens, authorize tokens, clients and client               *)
(* authorizations.  Every validator is a pure function of its arguments    *)
(* and of the package-level evaluator registry; it is modelled as an       *)
(* operator that computes what the Go code computes, and one action per    *)
(* validator applies it to arguments drawn from bounded sets.              *)
(*                                                                         *)
(* A string the code looks into is a sequence: a scope is a sequence of    *)
(* code points (the Go code compares runes with ranges), a name, a URI or  *)
(* a code challenge is a sequence of one-character strings.  A string the  *)
(* code only compares as a whole or tests for emptiness (userUID,          *)
(* codeChallengeMethod, a literal, a role name) is a TLA+ string.  Indices *)
(* in field paths are Go's (from 0).                                       *)
(***************************************************************************)
EXTENDS Integers, Sequences, FiniteSets, TLC

VARIABLES
    ScopeEvaluators,  \* authorizerscopes.ScopeEvaluators, the ordered registry
    pc,               \* "idle": no call in progress; "done": a call has returned
    call,             \* the validator called and its arguments
    ret               \* what it returned

vars == <<ScopeEvaluators, pc, call, ret>>

----------------------------------------------------------------------------
(* Bounds of the model *)

\* most scopes in one scope list
MaxScopes == 2
\* most characters in one scope list, all its scopes together
MaxScopeChars == 2
\* most evaluators in the registry
MaxEvaluators == 2

----------------------------------------------------------------------------
(* Generic helpers *)

\* the sequences over S of length at most n
SeqsUpTo(S, n) == UNION {[1..k -> S] : k \in 0..n}

RECURSIVE Flatten(_)
\* the concatenation of a sequence of sequences
Flatten(ss) == IF ss = <<>> THEN <<>> ELSE Head(ss) \o Flatten(Tail(ss))

\* the sequence c, c, ..., c of length n
Rep(c, n) == [k \in 1..n |-> c]

\* strings.HasPrefix
HasPrefix(s, p) == Len(s) >= Len(p) /\ SubSeq(s, 1, Len(p)) = p

\* strings.Contains for a one-element needle
Contains(s, c) == \E k \in 1..Len(s) : s[k] = c

----------------------------------------------------------------------------
(* The field error model (k8s.io/kubernetes/pkg/util/validation/field) *)

\* field.NewPath(name, more...)
NewPath(names) == names

\* (*field.Path).Child(name, more...)
Child(path, names) == path \o names

\* (*field.Path).Index(i): i counts from 0, as in Go
Index(path, i) == Append(path, "[" \o ToString(i) \o "]")

\* field.Required(path, detail)
Required(path, detail) == [type |-> "Required", field |-> path, detail |-> detail]

\* field.Invalid(path, value, detail); the offending value is not kept
Invalid(path, detail) == [type |-> "Invalid", field |-> path, detail |-> detail]

RECURSIVE JoinQuoted(_)
\* strings.Join of the quoted values, separated by ", "
JoinQuoted(values) ==
    IF values = <<>> THEN ""
    ELSE "\"" \o Head(values) \o "\""
         \o (IF Tail(values) = <<>> THEN "" ELSE ", " \o JoinQuoted(Tail(values)))

\* field.NotSupported(path, value, validValues): the detail lists the valid values
NotSupported(path, valid) ==
    [type |-> "NotSupported", field |-> path,
     detail |-> "supported values: " \o JoinQuoted(valid)]

\* field.Forbidden(path, detail)
Forbidden(path, detail) == [type |-> "Forbidden", field |-> path, detail |-> detail]

----------------------------------------------------------------------------
(* Scope evaluators: the interface {Handles(scope) bool; Validate(scope)   *)
(* error}.  An evaluator of the model handles the scopes that start with   *)
(* its prefix and rejects those it handles that end with a character of    *)
(* its deny set.                                                           *)

\* evaluators the registry is filled from
EvaluatorPool ==
    { [name |-> "any",    prefix |-> <<>>,   deny |-> {}],
      [name |-> "bang",   prefix |-> <<33>>, deny |-> {33}],
      [name |-> "strict", prefix |-> <<>>,   deny |-> {33, 35}] }

\* ScopeEvaluator.Handles
Handles(e, scope) == HasPrefix(scope, e.prefix)

\* the nil error
NoError == "<nil>"

\* ScopeEvaluator.Validate: the error's text, or NoError
Validate(e, scope) ==
    IF scope # <<>> /\ scope[Len(scope)] \in e.deny
    THEN e.name \o " rejects the scope"
    ELSE NoError

\* the registries a process can start with: every evaluator registered once
Registries ==
    {r \in SeqsUpTo(EvaluatorPool, MaxEvaluators) :
        \A j, k \in 1..Len(r) : r[j] = r[k] => j = k}

----------------------------------------------------------------------------
(* ValidateScopes (validation.go 265-305) *)

\* a mutant of AllowedScopeChar: the two excluded characters '"' and '\' let through
AllowedScopeChar_Mutant(ch) == ch >= 33 /\ ch <= 126

\* the switch of lines 273-277: the characters RFC 6749 section 3.3 allows
AllowedScopeChar(ch) ==
    \/ ch = 33
    \/ (ch >= 35 /\ ch <= 91)
    \/ (ch >= 93 /\ ch <= 126)

\* fmt.Sprintf("%v not allowed", ch): a rune prints as its number
NotAllowedDetail(ch) == ToString(ch) \o " not allowed"

RECURSIVE ScreenChars(_, _, _)
\* the loop of lines 272-281 from character k on: one error per illegal character
ScreenChars(scope, k, path) ==
    IF k > Len(scope) THEN <<>>
    ELSE (IF AllowedScopeChar(scope[k]) THEN <<>>
          ELSE <<Invalid(path, NotAllowedDetail(scope[k]))>>)
         \o ScreenChars(scope, k + 1, path)

\* a recorded call of an evaluator's method
CallOf(fn, k, i) == [fn |-> fn, evaluator |-> k, index |-> i]

\* a result with calls put before its own
After(calls, r) == [errs |-> r.errs, calls |-> calls \o r.calls]

RECURSIVE Dispatch(_, _, _, _, _)
\* the loop of lines 287-297 from evaluator k on, and the check of lines
\* 299-301; i is the scope's index, found the variable of line 286
Dispatch(scope, i, path, k, found) ==
    IF k > Len(ScopeEvaluators)
    THEN [errs  |-> IF found THEN <<>> ELSE <<Invalid(path, "no scope handler found")>>,
          calls |-> <<>>]
    ELSE LET evaluator == ScopeEvaluators[k]
             h == CallOf("Handles", k, i)
             v == CallOf("Validate", k, i)
         IN  IF ~Handles(evaluator, scope)
             THEN After(<<h>>, Dispatch(scope, i, path, k + 1, found))
             ELSE IF Validate(evaluator, scope) # NoError
                  THEN [errs  |-> <<Invalid(path, Validate(evaluator, scope))>>,
                        calls |-> <<h, v>>]
                  ELSE After(<<h, v>>, Dispatch(scope, i, path, k + 1, TRUE))

\* one pass of the loop body of lines 268-302 for the scope at index i
ValidateScope(scope, i, fldPath) ==
    LET path == Index(fldPath, i)
        illegal == ScreenChars(scope, 1, path)
    IN  IF illegal # <<>>
        THEN [errs |-> illegal, calls |-> <<>>]
        ELSE Dispatch(scope, i, path, 1, FALSE)

RECURSIVE ScopesFrom_Mutant(_, _, _)
\* a mutant of ScopesFrom: an illegal character ends the outer loop
ScopesFrom_Mutant(scopes, n, fldPath) ==
    IF n > Len(scopes) THEN [errs |-> <<>>, calls |-> <<>>]
    ELSE LET one == ValidateScope(scopes[n], n - 1, fldPath)
             rest == ScopesFrom_Mutant(scopes, n + 1, fldPath)
         IN  IF ScreenChars(scopes[n], 1, <<>>) # <<>>
             THEN one
             ELSE [errs |-> one.errs \o rest.errs, calls |-> one.calls \o rest.calls]

RECURSIVE ScopesFrom(_, _, _)
\* the loop of lines 268-302 from the scope at position n (index n - 1) on
ScopesFrom(scopes, n, fldPath) ==
    IF n > Len(scopes) THEN [errs |-> <<>>, calls |-> <<>>]
    ELSE LET one == ValidateScope(scopes[n], n - 1, fldPath)
             rest == ScopesFrom(scopes, n + 1, fldPath)
         IN  [errs |-> one.errs \o rest.errs, calls |-> one.calls \o rest.calls]

\* ValidateScopes: the errors, and the evaluator calls made on the way
ValidateScopes(scopes, fldPath) == ScopesFrom(scopes, 1, fldPath)

----------------------------------------------------------------------------
(* Arguments of ValidateScopes *)

\* characters of the scopes of scope lists: space, '!', '#', '\', '~'
ScopeChars == {32, 33, 35, 92, 126}

\* characters on both sides of every boundary of the allowed set
EdgeChars == {31, 32, 33, 34, 35, 36, 90, 91, 92, 93, 94, 125, 126, 127, 128}

RECURSIVE ListsWithin(_, _)
\* the lists of at most n scopes over ScopeChars with at most c characters
\* in all
ListsWithin(n, c) ==
    IF n = 0 THEN {<<>>}
    ELSE {<<>>} \cup
         UNION {{<<s>> \o l : l \in ListsWithin(n - 1, c - Len(s))} :
                    s \in SeqsUpTo(ScopeChars, c)}

\* scope lists: all of at most MaxScopes scopes with at most MaxScopeChars
\* characters in all, and every one-character scope over EdgeChars
ScopeLists ==
    ListsWithin(MaxScopes, MaxScopeChars)
    \cup {<<<<c>>>> : c \in EdgeChars}

----------------------------------------------------------------------------
(* net/url.Parse, as far as ValidateRedirectURI reads its result: whether  *)
(* it fails, the decoded Path and the decoded Fragment                      *)

\* the position of the first c in s, from 1; 0 when there is none (strings.Index)
IndexOf(s, c) ==
    IF \E k \in 1..Len(s) : s[k] = c
    THEN CHOOSE k \in 1..Len(s) : s[k] = c /\ \A j \in 1..(k - 1) : s[j] # c
    ELSE 0

\* url.split(s, c, cutc): s cut at the first c, which goes to neither part
\* (cutc) or begins the second part
SplitAt(s, c, cutc) ==
    LET i == IndexOf(s, c)
    IN  IF i = 0 THEN <<s, <<>>>>
        ELSE <<SubSeq(s, 1, i - 1), SubSeq(s, IF cutc THEN i + 1 ELSE i, Len(s))>>

Letters == {"a", "b", "c", "d", "e", "f", "g", "h", "i", "j", "k", "l", "m", "n",
            "o", "p", "q", "r", "s", "t", "u", "v", "w", "x", "y", "z"}
Digits == {"0", "1", "2", "3", "4", "5", "6", "7", "8", "9"}
HexDigits == Digits \cup {"a", "b", "c", "d", "e", "f", "A", "B", "C", "D", "E", "F"}

\* the byte a %xy escape stands for: '.' and '/' as themselves, any other
\* byte as one element that is neither
Unhex(x, y) ==
    IF x = "2" /\ y \in {"e", "E"} THEN "."
    ELSE IF x = "2" /\ y \in {"f", "F"} THEN "/"
    ELSE "%" \o x \o y

\* url.unescape fails on a % that two hex digits do not follow
BadEscape(s) ==
    \E k \in 1..Len(s) :
        /\ s[k] = "%"
        /\ ~(k + 2 <= Len(s) /\ s[k + 1] \in HexDigits /\ s[k + 2] \in HexDigits)

RECURSIVE Unescape(_)
\* url.unescape of a string without bad escapes
Unescape(s) ==
    IF s = <<>> THEN <<>>
    ELSE IF s[1] = "%"
         THEN <<Unhex(s[2], s[3])>> \o Unescape(SubSeq(s, 4, Len(s)))
         ELSE <<s[1]>> \o Unescape(Tail(s))

RECURSIVE GetScheme(_, _)
\* url.getscheme from character i on: the scheme and the rest, or an error
GetScheme(rawurl, i) ==
    IF i > Len(rawurl) THEN [err |-> "", scheme |-> <<>>, rest |-> rawurl]
    ELSE LET c == rawurl[i]
         IN  IF c \in Letters THEN GetScheme(rawurl, i + 1)
             ELSE IF c \in Digits \cup {"+", "-", "."}
                  THEN IF i = 1 THEN [err |-> "", scheme |-> <<>>, rest |-> rawurl]
                       ELSE GetScheme(rawurl, i + 1)
             ELSE IF c = ":"
                  THEN IF i = 1
                       THEN [err |-> "missing protocol scheme", scheme |-> <<>>, rest |-> <<>>]
                       ELSE [err |-> "", scheme |-> SubSeq(rawurl, 1, i - 1),
                             rest |-> SubSeq(rawurl, i + 1, Len(rawurl))]
             ELSE [err |-> "", scheme |-> <<>>, rest |-> rawurl]

\* a failed parse
ParseError(text) == [err |-> text, Path |-> <<>>, Fragment |-> <<>>]

\* url.parse(rawurl, false), rawurl without its fragment
ParseNoFragment(rawurl) ==
    LET s == GetScheme(rawurl, 1)
        rest == SplitAt(s.rest, "?", TRUE)[1]
        colon == IndexOf(rest, ":")
        slash == IndexOf(rest, "/")
        hasAuthority ==
            HasPrefix(rest, <<"/", "/">>)
            /\ (s.scheme # <<>> \/ ~HasPrefix(rest, <<"/", "/", "/">>))
        cut == SplitAt(SubSeq(rest, 3, Len(rest)), "/", FALSE)
        authority == IF hasAuthority THEN cut[1] ELSE <<>>
        path == IF hasAuthority THEN cut[2] ELSE rest
    IN  IF s.err # "" THEN ParseError(s.err)
        ELSE IF ~HasPrefix(rest, <<"/">>) /\ s.scheme # <<>>
             THEN [err |-> "", Path |-> <<>>, Fragment |-> <<>>]       \* Opaque
        ELSE IF ~HasPrefix(rest, <<"/">>) /\ colon > 0 /\ (slash = 0 \/ colon < slash)
             THEN ParseError("first path segment in URL cannot contain colon")
        ELSE IF Contains(authority, "%") \/ BadEscape(path)
             THEN ParseError("invalid URL escape")
        ELSE [err |-> "", Path |-> Unescape(path), Fragment |-> <<>>]

\* url.Parse(rawurl)
UrlParse(rawurl) ==
    LET cut == SplitAt(rawurl, "#", TRUE)
        u == ParseNoFragment(cut[1])
    IN  IF u.err # "" THEN u
        ELSE IF BadEscape(cut[2]) THEN ParseError("invalid URL escape")
        ELSE [u EXCEPT !.Fragment = Unescape(cut[2])]

RECURSIVE SplitOn(_, _)
\* strings.Split(s, sep) for a one-character separator
SplitOn(s, sep) ==
    LET i == IndexOf(s, sep)
    IN  IF i = 0 THEN <<s>>
        ELSE <<SubSeq(s, 1, i - 1)>> \o SplitOn(SubSeq(s, i + 1, Len(s)), sep)

----------------------------------------------------------------------------
(* ValidateRedirectURI (validation.go 41-62) *)

RECURSIVE SegmentCheck_Mutant(_, _)
\* a mutant of SegmentCheck: only ".." is looked for
SegmentCheck_Mutant(segments, k) ==
    IF k > Len(segments) THEN [ok |-> TRUE, reason |-> ""]
    ELSE IF segments[k] = <<".", ".">>
         THEN [ok |-> FALSE, reason |-> "may not contain a path segment of .."]
    ELSE SegmentCheck_Mutant(segments, k + 1)

RECURSIVE SegmentCheck(_, _)
\* the loop of lines 53-60 from segment k on, and the return of line 61
SegmentCheck(segments, k) ==
    IF k > Len(segments) THEN [ok |-> TRUE, reason |-> ""]
    ELSE IF segments[k] = <<".">>
         THEN [ok |-> FALSE, reason |-> "may not contain a path segment of ."]
    ELSE IF segments[k] = <<".", ".">>
         THEN [ok |-> FALSE, reason |-> "may not contain a path segment of .."]
    ELSE SegmentCheck(segments, k + 1)

\* ValidateRedirectURI: (ok, reason)
ValidateRedirectURI(redirect) ==
    IF Len(redirect) = 0 THEN [ok |-> TRUE, reason |-> ""]
    ELSE LET u == UrlParse(redirect)
         IN  IF u.err # "" THEN [ok |-> FALSE, reason |-> "parse: " \o u.err]
             ELSE IF Len(u.Fragment) # 0
                  THEN [ok |-> FALSE, reason |-> "may not contain a fragment"]
             ELSE SegmentCheck(SplitOn(u.Path, "/"), 1)

\* most characters of a redirect URI drawn from URIChars
MaxURILen == 4

\* the characters redirect URIs are drawn from
URIChars == {"x", ":", "/", ".", "#", "?", "%"}

\* a string literal as a sequence, for the URIs written out below
HttpX == <<"h", "t", "t", "p", ":", "/", "/", "x">>

\* redirect URIs: all the short ones, and some written out
RedirectURIs ==
    SeqsUpTo(URIChars, MaxURILen)
    \cup { HttpX,
           HttpX \o <<"/", ".", ".", "/", "y">>,
           HttpX \o <<"/", ".", "/", "y">>,
           HttpX \o <<"#", "f", "r", "a", "g">>,
           HttpX \o <<"/", ".", ".", "#", "f">>,
           HttpX \o <<"/", "%", "2", "e", "%", "2", "E", "/", "y">>,
           HttpX \o <<"/", "a", "%", "2", "f", ".", ".">>,
           HttpX \o <<"/", ".", ".", ".", "/", "y", ".", ".">>,
           HttpX \o <<"/", "y", "?", "/", ".", ".", "/">>,
           HttpX \o <<"/", "%", "z", "z">> }

----------------------------------------------------------------------------
(* The validators this package calls in other packages.  Only what the     *)
(* callers below read of them is modelled: the reasons or errors returned. *)

\* oapi.NameMayNotBe and oapi.NameMayNotContain
NameMayNotBe == {<<".">>, <<".", ".">>}
NameMayNotContain == {"/", "%"}

\* oapi.MinimalNameRequirements(name, prefix): at most one reason
MinimalNameRequirements(name, prefix) ==
    IF name \in NameMayNotBe THEN <<"name may not be . or ..">>
    ELSE IF \E c \in NameMayNotContain : Contains(name, c)
         THEN <<"name may not contain / or %">>
    ELSE <<>>

\* a DNS-1123 label: lower-case alphanumerics and '-', alphanumeric at both ends
IsDNS1123Label(label) ==
    /\ label # <<>>
    /\ \A k \in 1..Len(label) : label[k] \in Letters \cup Digits \cup {"-"}
    /\ label[1] # "-" /\ label[Len(label)] # "-"

\* validation.NameIsDNSSubdomain(name, prefix): labels joined by '.'
NameIsDNSSubdomain(name, prefix) ==
    IF \A k \in 1..Len(SplitOn(name, ".")) : IsDNS1123Label(SplitOn(name, ".")[k])
    THEN <<>>
    ELSE <<"must be a DNS-1123 subdomain">>

\* validation.ValidateServiceAccountName
ValidateServiceAccountName(name, prefix) == NameIsDNSSubdomain(name, prefix)

\* serviceaccount.ServiceAccountUsernamePrefix, "system:serviceaccount:"
ServiceAccountUsernamePrefix ==
    <<"s", "y", "s", "t", "e", "m", ":",
      "s", "e", "r", "v", "i", "c", "e", "a", "c", "c", "o", "u", "n", "t", ":">>

\* serviceaccount.SplitUsername(username): (namespace, name, err)
SplitUsername(username) ==
    LET parts == SplitOn(SubSeq(username, Len(ServiceAccountUsernamePrefix) + 1,
                                Len(username)), ":")
        bad == [err |-> "Username must be in the form system:serviceaccount:namespace:name",
                namespace |-> <<>>, name |-> <<>>]
    IN  IF ~HasPrefix(username, ServiceAccountUsernamePrefix) THEN bad
        ELSE IF Len(parts) # 2 THEN bad
        ELSE IF ~IsDNS1123Label(parts[1]) THEN bad
        ELSE IF ValidateServiceAccountName(parts[2], FALSE) # <<>> THEN bad
        ELSE [err |-> NoError, namespace |-> parts[1], name |-> parts[2]]

\* uservalidation.ValidateUserName(name, prefix)
ValidateUserName(name, prefix) ==
    IF MinimalNameRequirements(name, FALSE) # <<>> THEN MinimalNameRequirements(name, FALSE)
    ELSE IF Contains(name, ":") THEN <<"may not contain \":\"">>
    ELSE IF name = <<"~">> THEN <<"may not equal \"~\"">>
    ELSE <<>>

\* one Invalid error at path per reason
InvalidPerReason(path, reasons) == [k \in 1..Len(reasons) |-> Invalid(path, reasons[k])]

\* validation.ValidateObjectMeta(meta, requiresNamespace, nameFn, fldPath), for
\* the fields Name and Namespace of the metadata; nameReasons is the result of
\* nameFn(meta.Name, false), the call it makes on a name that is not empty
ValidateObjectMeta(meta, requiresNamespace, nameReasons, fldPath) ==
    (IF Len(meta.Name) = 0
     THEN <<Required(Child(fldPath, <<"name">>), "name or generateName is required")>>
     ELSE InvalidPerReason(Child(fldPath, <<"name">>), nameReasons))
    \o
    (IF requiresNamespace
     THEN IF Len(meta.Namespace) = 0
          THEN <<Required(Child(fldPath, <<"namespace">>), "")>>
          ELSE <<>>
     ELSE IF Len(meta.Namespace) # 0
          THEN <<Forbidden(Child(fldPath, <<"namespace">>), "not allowed on this type")>>
          ELSE <<>>)

\* validation.ValidateImmutableField(newVal, oldVal, fldPath)
ValidateImmutableField(newVal, oldVal, fldPath) ==
    IF newVal # oldVal THEN <<Invalid(fldPath, "field is immutable")>> ELSE <<>>

\* validation.ValidateObjectMetaUpdate(newMeta, oldMeta, fldPath), for the
\* fields Name and Namespace of the metadata
ValidateObjectMetaUpdate(newMeta, oldMeta, fldPath) ==
    ValidateImmutableField(newMeta.Name, oldMeta.Name, Child(fldPath, <<"name">>))
    \o ValidateImmutableField(newMeta.Namespace, oldMeta.Namespace,
                              Child(fldPath, <<"namespace">>))

----------------------------------------------------------------------------
(* Names and name fields (validation.go 19-39, 243-263) *)

\* const MinTokenLength
MinTokenLength == 32

\* ValidateTokenName(name, prefix)
ValidateTokenName(name, prefix) ==
    IF Len(MinimalNameRequirements(name, prefix)) # 0
    THEN MinimalNameRequirements(name, prefix)
    ELSE IF Len(name) < MinTokenLength
         THEN <<"must be at least " \o ToString(MinTokenLength) \o " characters long">>
    ELSE <<>>

RECURSIVE JoinReasons(_)
\* strings.Join(reasons, ", ")
JoinReasons(reasons) ==
    IF reasons = <<>> THEN ""
    ELSE IF Tail(reasons) = <<>> THEN Head(reasons)
    ELSE Head(reasons) \o ", " \o JoinReasons(Tail(reasons))

\* ValidateClientNameField(value, fldPath)
ValidateClientNameField(value, fldPath) ==
    IF Len(value) = 0 THEN <<Required(fldPath, "")>>
    ELSE IF SplitUsername(value).err = NoError
         THEN IF Len(ValidateServiceAccountName(SplitUsername(value).name, FALSE)) # 0
              THEN <<Invalid(fldPath,
                       JoinReasons(ValidateServiceAccountName(SplitUsername(value).name, FALSE)))>>
              ELSE <<>>
    ELSE IF Len(NameIsDNSSubdomain(value, FALSE)) # 0
         THEN <<Invalid(fldPath, JoinReasons(NameIsDNSSubdomain(value, FALSE)))>>
    ELSE <<>>

\* ValidateUserNameField(value, fldPath)
ValidateUserNameField(value, fldPath) ==
    IF Len(value) = 0 THEN <<Required(fldPath, "")>>
    ELSE IF Len(ValidateUserName(value, FALSE)) # 0
         THEN <<Invalid(fldPath, JoinReasons(ValidateUserName(value, FALSE)))>>
    ELSE <<>>

----------------------------------------------------------------------------
(* Access tokens (validation.go 64-85) *)

\* lines 70-72 (and 95-97): userUID is required
RequireUserUID(userUID, name) ==
    IF userUID = "" THEN <<Required(NewPath(<<name>>), "")>> ELSE <<>>

\* lines 73-75 (and 98-100): the redirect URI
RedirectURIErrs(redirectURI) ==
    IF ~ValidateRedirectURI(redirectURI).ok
    THEN <<Invalid(NewPath(<<"redirectURI">>), ValidateRedirectURI(redirectURI).reason)>>
    ELSE <<>>

\* a mutant of ValidateAccessToken: userUID is checked before the scopes
ValidateAccessToken_Mutant(accessToken) ==
    ValidateObjectMeta(accessToken.ObjectMeta, FALSE, ValidateTokenName(accessToken.ObjectMeta.Name, FALSE),
                       NewPath(<<"metadata">>))
    \o ValidateClientNameField(accessToken.ClientName, NewPath(<<"clientName">>))
    \o ValidateUserNameField(accessToken.UserName, NewPath(<<"userName">>))
    \o RequireUserUID(accessToken.UserUID, "userUID")
    \o ValidateScopes(accessToken.Scopes, NewPath(<<"scopes">>)).errs
    \o RedirectURIErrs(accessToken.RedirectURI)

\* ValidateAccessToken(accessToken)
ValidateAccessToken(accessToken) ==
    ValidateObjectMeta(accessToken.ObjectMeta, FALSE, ValidateTokenName(accessToken.ObjectMeta.Name, FALSE),
                       NewPath(<<"metadata">>))
    \o ValidateClientNameField(accessToken.ClientName, NewPath(<<"clientName">>))
    \o ValidateUserNameField(accessToken.UserName, NewPath(<<"userName">>))
    \o ValidateScopes(accessToken.Scopes, NewPath(<<"scopes">>)).errs
    \o RequireUserUID(accessToken.UserUID, "userUID")
    \o RedirectURIErrs(accessToken.RedirectURI)

\* ValidateAccessTokenUpdate(newToken, oldToken)
ValidateAccessTokenUpdate(newToken, oldToken) ==
    LET copied == [oldToken EXCEPT !.ObjectMeta = newToken.ObjectMeta]
    IN  ValidateObjectMetaUpdate(newToken.ObjectMeta, oldToken.ObjectMeta,
                                 NewPath(<<"metadata">>))
        \o ValidateImmutableField(newToken, copied, NewPath(<<"">>))

----------------------------------------------------------------------------
(* Authorize tokens (validation.go 87-128) *)

UpperLetters == {"A", "B", "C", "D", "E", "F", "G", "H", "I", "J", "K", "L", "M", "N",
                 "O", "P", "Q", "R", "S", "T", "U", "V", "W", "X", "Y", "Z"}

\* a mutant of codeChallengeRegex: {42,128} for {43,128}
CodeChallengeRegex_Mutant(challenge) ==
    /\ Len(challenge) >= 42 /\ Len(challenge) <= 128
    /\ \A k \in 1..Len(challenge) :
          challenge[k] \in Letters \cup UpperLetters \cup Digits \cup {".", "_", "~", "-"}

\* codeChallengeRegex.MatchString: ^[a-zA-Z0-9._~-]{43,128}$
CodeChallengeRegex(challenge) ==
    /\ Len(challenge) >= 43 /\ Len(challenge) <= 128
    /\ \A k \in 1..Len(challenge) :
          challenge[k] \in Letters \cup UpperLetters \cup Digits \cup {".", "_", "~", "-"}

\* var CodeChallengeMethodsSupported
CodeChallengeMethodsSupported == <<"plain", "S256">>

\* the switch of lines 103-108
CodeChallengeErrs(challenge) ==
    IF Len(challenge) = 0
    THEN <<Required(NewPath(<<"codeChallenge">>), "required if codeChallengeMethod is specified")>>
    ELSE IF ~CodeChallengeRegex(challenge)
         THEN <<Invalid(NewPath(<<"codeChallenge">>), "must be 43-128 characters [a-zA-Z0-9.~_-]")>>
    ELSE <<>>

\* the switch of lines 110-117
CodeChallengeMethodErrs(method) ==
    IF method = ""
    THEN <<Required(NewPath(<<"codeChallengeMethod">>), "required if codeChallenge is specified")>>
    ELSE IF method \in {"plain", "S256"} THEN <<>>
    ELSE <<NotSupported(NewPath(<<"codeChallengeMethod">>), CodeChallengeMethodsSupported)>>

\* lines 102-118: the PKCE block
PKCEErrs(challenge, method) ==
    IF Len(challenge) > 0 \/ method # ""
    THEN CodeChallengeErrs(challenge) \o CodeChallengeMethodErrs(method)
    ELSE <<>>

\* ValidateAuthorizeToken(authorizeToken)
ValidateAuthorizeToken(authorizeToken) ==
    ValidateObjectMeta(authorizeToken.ObjectMeta, FALSE, ValidateTokenName(authorizeToken.ObjectMeta.Name, FALSE),
                       NewPath(<<"metadata">>))
    \o ValidateClientNameField(authorizeToken.ClientName, NewPath(<<"clientName">>))
    \o ValidateUserNameField(authorizeToken.UserName, NewPath(<<"userName">>))
    \o ValidateScopes(authorizeToken.Scopes, NewPath(<<"scopes">>)).errs
    \o RequireUserUID(authorizeToken.UserUID, "userUID")
    \o RedirectURIErrs(authorizeToken.RedirectURI)
    \o PKCEErrs(authorizeToken.CodeChallenge, authorizeToken.CodeChallengeMethod)

\* ValidateAuthorizeTokenUpdate(newToken, oldToken)
ValidateAuthorizeTokenUpdate(newToken, oldToken) ==
    LET copied == [oldToken EXCEPT !.ObjectMeta = newToken.ObjectMeta]
    IN  ValidateObjectMetaUpdate(newToken.ObjectMeta, oldToken.ObjectMeta,
                                 NewPath(<<"metadata">>))
        \o ValidateImmutableField(newToken, copied, NewPath(<<"">>))

----------------------------------------------------------------------------
(* Clients (validation.go 130-187) *)

\* a pointer is a sequence of at most one element: Nil, or Ref of what it points to
Nil == <<>>
Ref(x) == <<x>>
Deref(p) == p[1]

\* a mutant of ValidateScopeRestriction: line 157 does not return, the
\* sub-field checks of the populated variants follow the error
ValidateScopeRestriction_Mutant(restriction, fldPath) ==
    LET specifiers == (IF Len(restriction.ExactValues) > 0 THEN 1 ELSE 0)
                      + (IF restriction.ClusterRole # Nil THEN 1 ELSE 0)
        literals == restriction.ExactValues
    IN  (IF specifiers # 1
         THEN <<Invalid(fldPath, "exactly one of literals, clusterRole is required")>>
         ELSE <<>>)
        \o
        (IF Len(restriction.ExactValues) > 0
         THEN Flatten([i \in 1..Len(literals) |->
                  IF literals[i] = ""
                  THEN <<Invalid(Index(Child(fldPath, <<"literals">>), i - 1),
                                 "may not be empty")>>
                  ELSE <<>>])
         ELSE IF restriction.ClusterRole # Nil
              THEN (IF Len(Deref(restriction.ClusterRole).RoleNames) = 0
                    THEN <<Required(Child(fldPath, <<"clusterRole", "roleNames">>),
                                    "won't match anything")>>
                    ELSE <<>>)
                   \o
                   (IF Len(Deref(restriction.ClusterRole).Namespaces) = 0
                    THEN <<Required(Child(fldPath, <<"clusterRole", "namespaces">>),
                                    "won't match anything")>>
                    ELSE <<>>)
         ELSE <<>>)

\* ValidateScopeRestriction(restriction, fldPath)
ValidateScopeRestriction(restriction, fldPath) ==
    LET specifiers == (IF Len(restriction.ExactValues) > 0 THEN 1 ELSE 0)
                      + (IF restriction.ClusterRole # Nil THEN 1 ELSE 0)
        literals == restriction.ExactValues
    IN  IF specifiers # 1
        THEN <<Invalid(fldPath, "exactly one of literals, clusterRole is required")>>
        ELSE IF Len(restriction.ExactValues) > 0
             THEN Flatten([i \in 1..Len(literals) |->
                      IF literals[i] = ""
                      THEN <<Invalid(Index(Child(fldPath, <<"literals">>), i - 1),
                                     "may not be empty")>>
                      ELSE <<>>])
        ELSE (IF Len(Deref(restriction.ClusterRole).RoleNames) = 0
              THEN <<Required(Child(fldPath, <<"clusterRole", "roleNames">>),
                              "won't match anything")>>
              ELSE <<>>)
             \o
             (IF Len(Deref(restriction.ClusterRole).Namespaces) = 0
              THEN <<Required(Child(fldPath, <<"clusterRole", "namespaces">>),
                              "won't match anything")>>
              ELSE <<>>)

\* ValidateClient(client)
ValidateClient(client) ==
    ValidateObjectMeta(client.ObjectMeta, FALSE, NameIsDNSSubdomain(client.ObjectMeta.Name, FALSE), NewPath(<<"metadata">>))
    \o Flatten([i \in 1..Len(client.RedirectURIs) |->
          IF ~ValidateRedirectURI(client.RedirectURIs[i]).ok
          THEN <<Invalid(Index(NewPath(<<"redirectURIs">>), i - 1),
                         ValidateRedirectURI(client.RedirectURIs[i]).reason)>>
          ELSE <<>>])
    \o Flatten([i \in 1..Len(client.ScopeRestrictions) |->
          ValidateScopeRestriction(client.ScopeRestrictions[i],
                                   Index(NewPath(<<"scopeRestrictions">>), i - 1))])

\* a mutant of ValidateClientUpdate: the new client is not validated
ValidateClientUpdate_Mutant(client, oldClient) ==
    ValidateObjectMetaUpdate(client.ObjectMeta, oldClient.ObjectMeta,
                             NewPath(<<"metadata">>))

\* ValidateClientUpdate(client, oldClient)
ValidateClientUpdate(client, oldClient) ==
    ValidateClient(client)
    \o ValidateObjectMetaUpdate(client.ObjectMeta, oldClient.ObjectMeta,
                                NewPath(<<"metadata">>))

----------------------------------------------------------------------------
(* Client authorizations (validation.go 189-241) *)

\* ValidateClientAuthorizationName(name, prefix); strings.Index is -1 or
\* counts from 0, IndexOf is 0 or counts from 1
ValidateClientAuthorizationName(name, prefix) ==
    LET lastColon == IndexOf(name, ":") - 1
    IN  IF Len(MinimalNameRequirements(name, prefix)) # 0
        THEN MinimalNameRequirements(name, prefix)
        ELSE IF lastColon <= 0 \/ lastColon >= Len(name) - 1
             THEN <<"must be in the format <userName>:<clientName>">>
        ELSE <<>>

\* a mutant of ValidateClientAuthorization: the name is compared with the
\* expected name whether or not the metadata is valid
ValidateClientAuthorization_Mutant(clientAuthorization) ==
    LET expectedName == clientAuthorization.UserName \o <<":">> \o clientAuthorization.ClientName
        metadataErrs == ValidateObjectMeta(clientAuthorization.ObjectMeta, FALSE,
                                           ValidateClientAuthorizationName(clientAuthorization.ObjectMeta.Name, FALSE),
                                           NewPath(<<"metadata">>))
    IN  metadataErrs
        \o (IF clientAuthorization.ObjectMeta.Name # expectedName
            THEN <<Invalid(NewPath(<<"metadata", "name">>),
                           "must be in the format <userName>:<clientName>")>>
            ELSE <<>>)
        \o ValidateClientNameField(clientAuthorization.ClientName, NewPath(<<"clientName">>))
        \o ValidateUserNameField(clientAuthorization.UserName, NewPath(<<"userName">>))
        \o ValidateScopes(clientAuthorization.Scopes, NewPath(<<"scopes">>)).errs
        \o RequireUserUID(clientAuthorization.UserUID, "useruid")

\* ValidateClientAuthorization(clientAuthorization)
ValidateClientAuthorization(clientAuthorization) ==
    LET expectedName == clientAuthorization.UserName \o <<":">> \o clientAuthorization.ClientName
        metadataErrs == ValidateObjectMeta(clientAuthorization.ObjectMeta, FALSE,
                                           ValidateClientAuthorizationName(clientAuthorization.ObjectMeta.Name, FALSE),
                                           NewPath(<<"metadata">>))
    IN  (IF Len(metadataErrs) > 0 THEN metadataErrs
         ELSE IF clientAuthorization.ObjectMeta.Name # expectedName
              THEN <<Invalid(NewPath(<<"metadata", "name">>),
                             "must be in the format <userName>:<clientName>")>>
         ELSE <<>>)
        \o ValidateClientNameField(clientAuthorization.ClientName, NewPath(<<"clientName">>))
        \o ValidateUserNameField(clientAuthorization.UserName, NewPath(<<"userName">>))
        \o ValidateScopes(clientAuthorization.Scopes, NewPath(<<"scopes">>)).errs
        \o RequireUserUID(clientAuthorization.UserUID, "useruid")

\* a mutant of ValidateClientAuthorizationUpdate: the three comparisons
\* chained with else, so that only the first changed field is reported
ValidateClientAuthorizationUpdate_Mutant(newAuth, oldAuth) ==
    ValidateClientAuthorization(newAuth)
    \o ValidateObjectMetaUpdate(newAuth.ObjectMeta, oldAuth.ObjectMeta, NewPath(<<"metadata">>))
    \o (IF oldAuth.ClientName # newAuth.ClientName
        THEN <<Invalid(NewPath(<<"clientName">>), "clientName is not a mutable field")>>
        ELSE IF oldAuth.UserName # newAuth.UserName
        THEN <<Invalid(NewPath(<<"userName">>), "userName is not a mutable field")>>
        ELSE IF oldAuth.UserUID # newAuth.UserUID
        THEN <<Invalid(NewPath(<<"userUID">>), "userUID is not a mutable field")>>
        ELSE <<>>)

\* ValidateClientAuthorizationUpdate(newAuth, oldAuth)
ValidateClientAuthorizationUpdate(newAuth, oldAuth) ==
    ValidateClientAuthorization(newAuth)
    \o ValidateObjectMetaUpdate(newAuth.ObjectMeta, oldAuth.ObjectMeta, NewPath(<<"metadata">>))
    \o (IF oldAuth.ClientName # newAuth.ClientName
        THEN <<Invalid(NewPath(<<"clientName">>), "clientName is not a mutable field")>>
        ELSE <<>>)
    \o (IF oldAuth.UserName # newAuth.UserName
        THEN <<Invalid(NewPath(<<"userName">>), "userName is not a mutable field")>>
        ELSE <<>>)
    \o (IF oldAuth.UserUID # newAuth.UserUID
        THEN <<Invalid(NewPath(<<"userUID">>), "userUID is not a mutable field")>>
        ELSE <<>>)

----------------------------------------------------------------------------
(* Arguments of the object validators *)

\* most literals in a scope restriction
MaxLiterals == 2
\* most redirect URIs and most scope restrictions of a client
MaxClientItems == 2

App == <<"a", "p", "p">>
Bob == <<"b", "o", "b">>
Al == <<"a", "l">>

\* a token name of n characters
TokenNameOf(n) == Rep("t", n)

\* metadata of tokens: a good name, a short one, none, a forbidden namespace
TokenMetas ==
    { [Name |-> TokenNameOf(MinTokenLength), Namespace |-> <<>>],
      [Name |-> TokenNameOf(MinTokenLength - 1), Namespace |-> <<>>],
      [Name |-> <<>>, Namespace |-> <<>>],
      [Name |-> TokenNameOf(MinTokenLength + 1), Namespace |-> <<"n">>] }

\* client names: none, a DNS name, not a DNS name, a service account, a
\* service account name cut short
ClientNames ==
    { <<>>, App, <<"a", "/">>,
      ServiceAccountUsernamePrefix \o <<"n", ":", "s">>,
      ServiceAccountUsernamePrefix \o <<"n">> }

\* user names: none, a good one, two bad ones
UserNames == { <<>>, Bob, <<"b", "/">>, <<"~">> }

UserUIDs == {"", "1", "2"}

\* scope lists of objects: none, a legal scope, an illegal one before a legal one
ObjectScopes == { <<>>, <<<<33>>>>, <<<<32>>, <<35>>>> }

\* redirect URIs of objects: none, a traversal, a fragment, a good one
ObjectURIs == { <<>>, <<"/", ".", ".">>, <<"#", "f">>, <<"/", "x">> }

AccessTokens ==
    [ObjectMeta : TokenMetas, ClientName : ClientNames, UserName : UserNames,
     UserUID : UserUIDs, Scopes : ObjectScopes, RedirectURI : ObjectURIs]

\* a code challenge of n good characters
ChallengeOf(n) == [k \in 1..n |-> IF k % 2 = 0 THEN "a" ELSE "Z"]

\* code challenges around both length limits, of every kind of good
\* character, and with one bad character
CodeChallenges ==
    { ChallengeOf(n) : n \in {0, 1, 42, 43, 44, 127, 128, 129} }
    \cup { ChallengeOf(38) \o <<"0", "9", ".", "_", "~", "-">> }
    \cup { [ChallengeOf(43) EXCEPT ![k] = c] : k \in {1, 20, 43}, c \in {"+", " "} }
    \cup { ChallengeOf(43) \o <<"\n">> }

CodeChallengeMethods == {"", "plain", "S256", "s256", "foo"}

\* authorize tokens: every challenge with every method, on tokens good or
\* bad in each other field
AuthorizeTokens ==
    [ObjectMeta : {[Name |-> TokenNameOf(MinTokenLength), Namespace |-> <<>>],
                   [Name |-> <<>>, Namespace |-> <<>>]},
     ClientName : {App, <<>>}, UserName : {Bob}, UserUID : {"", "1"},
     Scopes : {<<>>, <<<<32>>, <<35>>>>}, RedirectURI : {<<>>, <<"#", "f">>},
     CodeChallenge : CodeChallenges, CodeChallengeMethod : CodeChallengeMethods]

\* old and new access tokens of an update
UpdatedAccessTokens ==
    [ObjectMeta : {[Name |-> TokenNameOf(MinTokenLength), Namespace |-> <<>>],
                   [Name |-> <<>>, Namespace |-> <<"n">>]},
     ClientName : {App, <<>>}, UserName : {Bob}, UserUID : {"", "1"},
     Scopes : {<<>>, <<<<32>>, <<35>>>>}, RedirectURI : {<<"#", "f">>}]

\* old and new authorize tokens of an update
UpdatedAuthorizeTokens ==
    [ObjectMeta : {[Name |-> TokenNameOf(MinTokenLength), Namespace |-> <<>>],
                   [Name |-> <<>>, Namespace |-> <<"n">>]},
     ClientName : {App}, UserName : {Bob}, UserUID : {"", "1"},
     Scopes : {<<>>}, RedirectURI : {<<>>, <<"#", "f">>},
     CodeChallenge : {ChallengeOf(43), ChallengeOf(42)},
     CodeChallengeMethod : {"", "plain"}]

\* cluster role restrictions: none, and with or without role names and namespaces
ClusterRoles ==
    {Nil} \cup {Ref(r) : r \in [RoleNames : {<<>>, <<"admin">>},
                                Namespaces : {<<>>, <<"*">>}]}

\* scope restrictions: ExactValues nil or empty (<<>>) or holding literals,
\* some of them empty, with each cluster role restriction
ScopeRestrictions ==
    [ExactValues : SeqsUpTo({"", "user:info"}, MaxLiterals), ClusterRole : ClusterRoles]

\* the restrictions of clients: of each variant and of both, all with sub-field flaws
ClientRestrictions ==
    { [ExactValues |-> <<"user:info">>, ClusterRole |-> Nil],
      [ExactValues |-> <<"", "">>, ClusterRole |-> Nil],
      [ExactValues |-> <<>>, ClusterRole |-> Ref([RoleNames |-> <<>>, Namespaces |-> <<>>])],
      [ExactValues |-> <<"">>, ClusterRole |-> Ref([RoleNames |-> <<>>, Namespaces |-> <<>>])] }

\* metadata of clients: a DNS name, not one, none
ClientMetas ==
    { [Name |-> App, Namespace |-> <<>>],
      [Name |-> <<"A">>, Namespace |-> <<>>],
      [Name |-> <<>>, Namespace |-> <<"n">>] }

Clients ==
    [ObjectMeta : ClientMetas,
     RedirectURIs : SeqsUpTo({<<"/", ".", ".">>, <<"/", "x">>}, MaxClientItems),
     ScopeRestrictions : SeqsUpTo(ClientRestrictions, MaxClientItems)]

\* new clients of an update
UpdatedClients ==
    {c \in Clients : Len(c.RedirectURIs) + Len(c.ScopeRestrictions) <= 1}

\* names of client authorizations: bob:app, al:app, bob:, :app, bobapp,
\* "..", b/:app
AuthorizationNames ==
    { Bob \o <<":">> \o App, Al \o <<":">> \o App, Bob \o <<":">>, <<":">> \o App,
      Bob \o App, <<".", ".">>, <<"b", "/", ":">> \o App }

\* client authorizations with a name, and without one
ClientAuthorizations ==
    [ObjectMeta : [Name : AuthorizationNames, Namespace : {<<>>, <<"n">>}],
     ClientName : {<<>>, App, <<"a", "/">>}, UserName : {<<>>, Bob, <<"b", "/">>},
     UserUID : {"", "1"}, Scopes : ObjectScopes]
    \cup
    [ObjectMeta : [Name : {<<>>}, Namespace : {<<>>, <<"n">>}],
     ClientName : {<<>>, App, <<"a", "/">>}, UserName : {<<>>, Bob, <<"b", "/">>},
     UserUID : {"", "1"}, Scopes : ObjectScopes]

\* new client authorizations of an update
UpdatedClientAuthorizations ==
    [ObjectMeta : [Name : {<<>>, Bob \o <<":">> \o App, Al \o <<":">> \o App},
                   Namespace : {<<>>}],
     ClientName : {<<>>, App}, UserName : {Bob, Al},
     UserUID : UserUIDs, Scopes : {<<>>, <<<<32>>, <<35>>>>}]

\* old client authorizations of an update
OldClientAuthorizations ==
    {a \in UpdatedClientAuthorizations : a.Scopes = <<>>}

----------------------------------------------------------------------------
(* Specification *)

Init ==
    /\ ScopeEvaluators \in Registries
    /\ pc = "idle"
    /\ call = [fn |-> "none"]
    /\ ret = <<>>

\* a call of ValidateScopes(scopes, field.NewPath("scopes"))
CallValidateScopes ==
    /\ pc = "idle"
    /\ \E scopes \in ScopeLists :
        /\ call' = [fn |-> "ValidateScopes", scopes |-> scopes]
        /\ ret' = ValidateScopes(scopes, NewPath(<<"scopes">>))
    /\ pc' = "done"
    /\ UNCHANGED ScopeEvaluators

\* a call of ValidateRedirectURI(redirect)
CallValidateRedirectURI ==
    /\ pc = "idle"
    /\ \E redirect \in RedirectURIs :
        /\ call' = [fn |-> "ValidateRedirectURI", redirect |-> redirect]
        /\ ret' = ValidateRedirectURI(redirect)
    /\ pc' = "done"
    /\ UNCHANGED ScopeEvaluators

\* a call of ValidateAccessToken(accessToken)
CallValidateAccessToken ==
    /\ pc = "idle"
    /\ \E accessToken \in AccessTokens :
        /\ call' = [fn |-> "ValidateAccessToken", new |-> accessToken]
        /\ ret' = ValidateAccessToken(accessToken)
    /\ pc' = "done"
    /\ UNCHANGED ScopeEvaluators

\* a call of ValidateAccessTokenUpdate(newToken, oldToken)
CallValidateAccessTokenUpdate ==
    /\ pc = "idle"
    /\ \E newToken \in UpdatedAccessTokens, oldToken \in UpdatedAccessTokens :
        /\ call' = [fn |-> "ValidateAccessTokenUpdate", new |-> newToken, old |-> oldToken]
        /\ ret' = ValidateAccessTokenUpdate(newToken, oldToken)
    /\ pc' = "done"
    /\ UNCHANGED ScopeEvaluators

\* a call of ValidateAuthorizeToken(authorizeToken)
CallValidateAuthorizeToken ==
    /\ pc = "idle"
    /\ \E authorizeToken \in AuthorizeTokens :
        /\ call' = [fn |-> "ValidateAuthorizeToken", new |-> authorizeToken]
        /\ ret' = ValidateAuthorizeToken(authorizeToken)
    /\ pc' = "done"
    /\ UNCHANGED ScopeEvaluators

\* a call of ValidateAuthorizeTokenUpdate(newToken, oldToken)
CallValidateAuthorizeTokenUpdate ==
    /\ pc = "idle"
    /\ \E newToken \in UpdatedAuthorizeTokens, oldToken \in UpdatedAuthorizeTokens :
        /\ call' = [fn |-> "ValidateAuthorizeTokenUpdate", new |-> newToken, old |-> oldToken]
        /\ ret' = ValidateAuthorizeTokenUpdate(newToken, oldToken)
    /\ pc' = "done"
    /\ UNCHANGED ScopeEvaluators

\* a call of ValidateScopeRestriction(restriction, fldPath)
CallValidateScopeRestriction ==
    /\ pc = "idle"
    /\ \E restriction \in ScopeRestrictions :
        /\ call' = [fn |-> "ValidateScopeRestriction", restriction |-> restriction]
        /\ ret' = ValidateScopeRestriction(restriction,
                                           Index(NewPath(<<"scopeRestrictions">>), 0))
    /\ pc' = "done"
    /\ UNCHANGED ScopeEvaluators

\* a call of ValidateClient(client)
CallValidateClient ==
    /\ pc = "idle"
    /\ \E client \in Clients :
        /\ call' = [fn |-> "ValidateClient", new |-> client]
        /\ ret' = ValidateClient(client)
    /\ pc' = "done"
    /\ UNCHANGED ScopeEvaluators

\* a call of ValidateClientUpdate(client, oldClient)
CallValidateClientUpdate ==
    /\ pc = "idle"
    /\ \E client \in UpdatedClients, oldMeta \in ClientMetas :
        /\ call' = [fn |-> "ValidateClientUpdate", new |-> client,
                    old |-> [ObjectMeta |-> oldMeta, RedirectURIs |-> <<>>,
                             ScopeRestrictions |-> <<>>]]
        /\ ret' = ValidateClientUpdate(client, call'.old)
    /\ pc' = "done"
    /\ UNCHANGED ScopeEvaluators

\* a call of ValidateClientAuthorization(clientAuthorization)
CallValidateClientAuthorization ==
    /\ pc = "idle"
    /\ \E clientAuthorization \in ClientAuthorizations :
        /\ call' = [fn |-> "ValidateClientAuthorization", new |-> clientAuthorization]
        /\ ret' = ValidateClientAuthorization(clientAuthorization)
    /\ pc' = "done"
    /\ UNCHANGED ScopeEvaluators

\* a call of ValidateClientAuthorizationUpdate(newAuth, oldAuth)
CallValidateClientAuthorizationUpdate ==
    /\ pc = "idle"
    /\ \E newAuth \in UpdatedClientAuthorizations, oldAuth \in OldClientAuthorizations :
        /\ call' = [fn |-> "ValidateClientAuthorizationUpdate", new |-> newAuth,
                    old |-> oldAuth]
        /\ ret' = ValidateClientAuthorizationUpdate(newAuth, oldAuth)
    /\ pc' = "done"
    /\ UNCHANGED ScopeEvaluators

\* the caller takes the result; the validators keep no state between calls
Return ==
    /\ pc = "done"
    /\ pc' = "idle"
    /\ call' = [fn |-> "none"]
    /\ ret' = <<>>
    /\ UNCHANGED ScopeEvaluators

NextScopes == CallValidateScopes \/ Return

SpecScopes == Init /\ [][NextScopes]_vars

NextURI == CallValidateRedirectURI \/ Return

SpecURI == Init /\ [][NextURI]_vars

\* the validators of the four object types
NextObjects ==
    \/ CallValidateAccessToken
    \/ CallValidateAccessTokenUpdate
    \/ CallValidateAuthorizeToken
    \/ CallValidateAuthorizeTokenUpdate
    \/ CallValidateScopeRestriction
    \/ CallValidateClient
    \/ CallValidateClientUpdate
    \/ CallValidateClientAuthorization
    \/ CallValidateClientAuthorizationUpdate
    \/ Return

SpecObjects == Init /\ [][NextObjects]_vars

\* every exported validator
Next == NextScopes \/ NextURI \/ NextObjects

Spec == Init /\ [][Next]_vars

----------------------------------------------------------------------------
(* Properties of ValidateScopes *)

\* a call of ValidateScopes has returned
ScopesDone == pc = "done" /\ call.fn = "ValidateScopes"

\* the path of the scope at index i
ScopePath(i) == <<"scopes", "[" \o ToString(i) \o "]">>

\* the errors of a list reported at the scope at index i
ErrsAt(errs, i) == SelectSeq(errs, LAMBDA e : e.field = ScopePath(i))

\* the evaluator calls made on the scope at index i
CallsAt(calls, i) == SelectSeq(calls, LAMBDA c : c.index = i)

\* RFC 6749 section 3.3: %x21 / %x23-5B / %x5D-7E
ScopeCharset == {33} \cup (35..91) \cup (93..126)

\* how many characters of a scope are outside the charset
IllegalCount(scope) == Cardinality({k \in 1..Len(scope) : scope[k] \notin ScopeCharset})

\* the "not allowed" errors
IsNotAllowed(e) ==
    e.type = "Invalid" /\ \E c \in 0..128 : e.detail = ToString(c) \o " not allowed"

\* the registry positions of the evaluators that handle a scope
Handlers(scope) == {k \in 1..Len(ScopeEvaluators) : Handles(ScopeEvaluators[k], scope)}

\* the first of them
FirstHandler(scope) == CHOOSE k \in Handlers(scope) : \A j \in Handlers(scope) : k <= j

\* C1: dispatch is first-match.  For every scope that passes character
\* screening and that two or more registered evaluators handle, only the
\* first handling evaluator's Validate result is used: the errors at the
\* scope's index are that evaluator's error, or none if it accepts, and
\* Validate is invoked on no later evaluator.
C1_FirstMatchOnly ==
    ScopesDone =>
        \A n \in 1..Len(call.scopes) :
            LET scope == call.scopes[n]
            IN  (IllegalCount(scope) = 0 /\ Cardinality(Handlers(scope)) >= 2) =>
                    LET first == FirstHandler(scope)
                        verdict == Validate(ScopeEvaluators[first], scope)
                    IN  /\ ErrsAt(ret.errs, n - 1) =
                              (IF verdict = NoError THEN <<>>
                               ELSE <<Invalid(ScopePath(n - 1), verdict)>>)
                        /\ \A c \in 1..Len(ret.calls) :
                              (ret.calls[c].index = n - 1 /\ ret.calls[c].fn = "Validate")
                                  => ret.calls[c].evaluator = first

\* C3: character screening.  At every index the number of "not allowed"
\* errors is the number of characters of the scope outside
\* {0x21, 0x23..0x5B, 0x5D..0x7E}; when it is not zero no evaluator is
\* called on the scope and nothing but "not allowed" errors is reported at
\* its index.
C3_CharacterScreening ==
    ScopesDone =>
        \A n \in 1..Len(call.scopes) :
            LET scope == call.scopes[n]
                here == ErrsAt(ret.errs, n - 1)
            IN  /\ Len(SelectSeq(here, IsNotAllowed)) = IllegalCount(scope)
                /\ IllegalCount(scope) > 0 =>
                      /\ CallsAt(ret.calls, n - 1) = <<>>
                      /\ \A k \in 1..Len(here) : IsNotAllowed(here[k])

\* C3 witness: a scope of two illegal characters that a registered
\* evaluator would handle yields two errors and no evaluator call
C3_Witness ==
    /\ ScopesDone
    /\ call.scopes = <<<<32, 32>>>>
    /\ Handlers(<<32, 32>>) # {}
    /\ Len(ret.errs) = 2
    /\ ret.calls = <<>>

\* an error list moved to the scope at index i
AtIndex(errs, i) == [k \in 1..Len(errs) |-> [errs[k] EXCEPT !.field = ScopePath(i)]]

\* what ValidateScopes reports for a scope validated alone
Alone(scope) == ValidateScopes(<<scope>>, NewPath(<<"scopes">>)).errs

\* C10: the outer loop never short-circuits.  The errors of a scope list are
\* the concatenation, in index order, of the errors each scope yields when
\* validated alone, moved to its own index.
C10_NoShortCircuit ==
    ScopesDone =>
        ret.errs = Flatten([n \in 1..Len(call.scopes) |->
                                AtIndex(Alone(call.scopes[n]), n - 1)])

\* C10 witness: an illegal character at index 0 and a scope without a
\* handler at index 1, both reported
C10_Witness ==
    /\ ScopesDone
    /\ Len(call.scopes) = 2
    /\ IllegalCount(call.scopes[1]) > 0
    /\ IllegalCount(call.scopes[2]) = 0
    /\ ErrsAt(ret.errs, 0) # <<>>
    /\ ErrsAt(ret.errs, 1) = <<Invalid(ScopePath(1), "no scope handler found")>>

----------------------------------------------------------------------------
(* Properties of ValidateRedirectURI *)

\* a call of ValidateRedirectURI has returned
URIDone == pc = "done" /\ call.fn = "ValidateRedirectURI"

\* seg, which holds no "/", is one of the segments of path between "/"s
HasSegment(path, seg) ==
    \E a \in 1..(Len(path) + 1) :
        LET b == a + Len(seg) - 1
        IN  /\ b <= Len(path)
            /\ SubSeq(path, a, b) = seg
            /\ (a = 1 \/ path[a - 1] = "/")
            /\ (b = Len(path) \/ path[b + 1] = "/")

\* C5: ValidateRedirectURI accepts exactly the safe URIs.  It returns
\* (true, "") if and only if the input is empty, or parses with an empty
\* fragment and a path of which no segment is "." or ".."; otherwise it
\* returns false and a reason that is not empty: "may not contain a
\* fragment" for a fragment, "may not contain a path segment of ." or ".."
\* for such a segment when there is no fragment.
C5_RedirectURISafe ==
    URIDone =>
        LET u == UrlParse(call.redirect)
            dot == HasSegment(u.Path, <<".">>)
            dotdot == HasSegment(u.Path, <<".", ".">>)
            parsed == call.redirect # <<>> /\ u.err = ""
            safe == \/ call.redirect = <<>>
                    \/ (u.err = "" /\ u.Fragment = <<>> /\ ~dot /\ ~dotdot)
        IN  /\ ret.ok <=> safe
            /\ ret.ok => ret.reason = ""
            /\ ~ret.ok => ret.reason # ""
            /\ (parsed /\ u.Fragment # <<>>) => ret.reason = "may not contain a fragment"
            /\ (parsed /\ u.Fragment = <<>> /\ ~safe) =>
                  \/ (dot /\ ret.reason = "may not contain a path segment of .")
                  \/ (dotdot /\ ret.reason = "may not contain a path segment of ..")

\* C5 witness: http://x/../y is refused for its ".." segment
C5_Witness ==
    /\ URIDone
    /\ call.redirect = HttpX \o <<"/", ".", ".", "/", "y">>
    /\ ret = [ok |-> FALSE, reason |-> "may not contain a path segment of .."]

----------------------------------------------------------------------------
(* Properties of the object validators *)

\* validator fn has returned
Done(fn) == pc = "done" /\ call.fn = fn

\* the errors of a list at one field path
ErrsOn(errs, path) == SelectSeq(errs, LAMBDA e : e.field = path)

\* the characters of a PKCE code challenge, RFC 7636 section 4.2
ChallengeCharset == Letters \cup UpperLetters \cup Digits \cup {"-", ".", "_", "~"}

\* C4: the PKCE rule of ValidateAuthorizeToken.  codeChallenge and
\* codeChallengeMethod are free of errors exactly when both are empty, or
\* the challenge is 43 to 128 characters of [A-Za-z0-9._~-] and the method
\* is "plain" or "S256"; a challenge of length 42 or 129 is Invalid, one of
\* length 43 or 128 is accepted; a method without a challenge yields
\* Required on codeChallenge, a challenge without a method Required on
\* codeChallengeMethod, and any other method exactly one NotSupported error
\* on codeChallengeMethod that lists "plain" and "S256".
C4_PKCERule ==
    Done("ValidateAuthorizeToken") =>
        LET c == call.new.CodeChallenge
            m == call.new.CodeChallengeMethod
            onC == ErrsOn(ret, <<"codeChallenge">>)
            onM == ErrsOn(ret, <<"codeChallengeMethod">>)
            goodChars == \A k \in 1..Len(c) : c[k] \in ChallengeCharset
            good == Len(c) >= 43 /\ Len(c) <= 128 /\ goodChars
        IN  /\ (onC = <<>> /\ onM = <<>>) <=>
                  ((c = <<>> /\ m = "") \/ (good /\ m \in {"plain", "S256"}))
            /\ Len(c) \in {42, 129} => (Len(onC) = 1 /\ onC[1].type = "Invalid")
            /\ (Len(c) \in {43, 128} /\ goodChars) => onC = <<>>
            /\ (c = <<>> /\ m # "") => (Len(onC) = 1 /\ onC[1].type = "Required")
            /\ (c # <<>> /\ m = "") => (Len(onM) = 1 /\ onM[1].type = "Required")
            /\ m \notin {"", "plain", "S256"} =>
                  /\ onM = <<[type |-> "NotSupported", field |-> <<"codeChallengeMethod">>,
                              detail |-> "supported values: \"plain\", \"S256\""]>>
                  /\ Len(SelectSeq(ret, LAMBDA e : e.type = "NotSupported")) = 1

\* C4 witness: a challenge of 129 characters with the method "foo"
C4_Witness ==
    /\ Done("ValidateAuthorizeToken")
    /\ Len(call.new.CodeChallenge) = 129
    /\ call.new.CodeChallengeMethod = "foo"
    /\ Len(ErrsOn(ret, <<"codeChallenge">>)) = 1
    /\ Len(ErrsOn(ret, <<"codeChallengeMethod">>)) = 1

\* C8: ValidateScopeRestriction requires exactly one variant.  With both
\* ExactValues and ClusterRole populated, or neither, it yields exactly one
\* error, at the restriction's path, and no sub-field error; with exactly
\* one populated it never yields that error and yields one error per empty
\* literal, or one Required per empty roleNames and namespaces.
C8_ExactlyOneVariant ==
    Done("ValidateScopeRestriction") =>
        LET r == call.restriction
            path == <<"scopeRestrictions", "[0]">>
            literals == Len(r.ExactValues) > 0
            role == r.ClusterRole # <<>>
            exactlyOne == Invalid(path, "exactly one of literals, clusterRole is required")
            empties == {i \in 1..Len(r.ExactValues) : r.ExactValues[i] = ""}
            missing == {f \in {"RoleNames", "Namespaces"} : r.ClusterRole[1][f] = <<>>}
        IN  IF literals = role
            THEN ret = <<exactlyOne>>
            ELSE /\ \A k \in 1..Len(ret) :
                       /\ ret[k] # exactlyOne
                       /\ Len(ret[k].field) > Len(path)
                       /\ SubSeq(ret[k].field, 1, Len(path)) = path
                 /\ literals =>
                       /\ Len(ret) = Cardinality(empties)
                       /\ \A i \in empties :
                             ErrsOn(ret, path \o <<"literals", "[" \o ToString(i - 1) \o "]">>)
                                 = <<Invalid(path \o <<"literals", "[" \o ToString(i - 1) \o "]">>,
                                             "may not be empty")>>
                 /\ role =>
                       /\ Len(ret) = Cardinality(missing)
                       /\ \A k \in 1..Len(ret) : ret[k].type = "Required"
                       /\ ("RoleNames" \in missing) <=>
                             ErrsOn(ret, path \o <<"clusterRole", "roleNames">>) # <<>>
                       /\ ("Namespaces" \in missing) <=>
                             ErrsOn(ret, path \o <<"clusterRole", "namespaces">>) # <<>>

\* C8 witness: both variants populated, each with sub-field flaws, one error
C8_Witness ==
    /\ Done("ValidateScopeRestriction")
    /\ call.restriction.ExactValues = <<"", "">>
    /\ call.restriction.ClusterRole = <<[RoleNames |-> <<>>, Namespaces |-> <<>>]>>
    /\ Len(ret) = 1

\* C7: userUID is immutable.  When old and new differ in userUID,
\* ValidateClientAuthorizationUpdate reports exactly one Invalid error on
\* userUID whatever else differs; when they do not, none.
C7_UserUIDImmutable ==
    Done("ValidateClientAuthorizationUpdate") =>
        Len(SelectSeq(ret, LAMBDA e : e.type = "Invalid" /\ e.field = <<"userUID">>))
            = (IF call.old.UserUID # call.new.UserUID THEN 1 ELSE 0)

\* C7 witness: the userUID is emptied while the name, clientName and
\* userName change too
C7_Witness ==
    /\ Done("ValidateClientAuthorizationUpdate")
    /\ call.old.UserUID = "1" /\ call.new.UserUID = ""
    /\ call.old.ClientName # call.new.ClientName
    /\ call.old.UserName # call.new.UserName
    /\ call.old.ObjectMeta # call.new.ObjectMeta
    /\ ErrsOn(ret, <<"userUID">>) = <<Invalid(<<"userUID">>, "userUID is not a mutable field")>>

\* the stage of a full validator that reports on the field of an error
StageOf(e) ==
    CASE e.field[1] = "metadata" -> 1
      [] e.field[1] = "clientName" -> 2
      [] e.field[1] = "userName" -> 3
      [] e.field[1] = "scopes" -> 4
      [] e.field[1] \in {"userUID", "useruid"} -> 5
      [] e.field[1] = "redirectURI" -> 6
      [] e.field[1] \in {"codeChallenge", "codeChallengeMethod"} -> 7

\* what the metadata stage of full validator fn reports on object o by
\* itself; for a client authorization the comparison with the derived name
\* is made when the metadata is valid
MetadataStage(fn, o) ==
    LET tokenMeta == ValidateObjectMeta(o.ObjectMeta, FALSE, ValidateTokenName(o.ObjectMeta.Name, FALSE), <<"metadata">>)
        authMeta == ValidateObjectMeta(o.ObjectMeta, FALSE, ValidateClientAuthorizationName(o.ObjectMeta.Name, FALSE),
                                       <<"metadata">>)
    IN  IF fn # "ValidateClientAuthorization" THEN tokenMeta
        ELSE IF authMeta # <<>> THEN authMeta
        ELSE IF o.ObjectMeta.Name # o.UserName \o <<":">> \o o.ClientName
             THEN <<Invalid(<<"metadata", "name">>,
                            "must be in the format <userName>:<clientName>")>>
        ELSE <<>>

\* what stage n of full validator fn reports on object o by itself
StageAlone(fn, o, n) ==
    CASE n = 1 -> MetadataStage(fn, o)
      [] n = 2 -> ValidateClientNameField(o.ClientName, <<"clientName">>)
      [] n = 3 -> ValidateUserNameField(o.UserName, <<"userName">>)
      [] n = 4 -> ValidateScopes(o.Scopes, <<"scopes">>).errs
      [] n = 5 -> IF o.UserUID # "" THEN <<>>
                  ELSE IF fn = "ValidateClientAuthorization"
                       THEN <<Required(<<"useruid">>, "")>>
                       ELSE <<Required(<<"userUID">>, "")>>
      [] n = 6 -> IF fn = "ValidateClientAuthorization" \/ ValidateRedirectURI(o.RedirectURI).ok
                  THEN <<>>
                  ELSE <<Invalid(<<"redirectURI">>, ValidateRedirectURI(o.RedirectURI).reason)>>
      [] n = 7 -> IF fn # "ValidateAuthorizeToken" THEN <<>>
                  ELSE PKCEErrs(o.CodeChallenge, o.CodeChallengeMethod)

FullValidators == {"ValidateAccessToken", "ValidateAuthorizeToken", "ValidateClientAuthorization"}

\* C9: the full object validators run every stage whatever the earlier ones
\* found, and report in the order metadata, clientName, userName, scopes,
\* userUID, redirectURI, PKCE: the errors are ordered by stage, and those of
\* each stage are what the stage reports by itself.
C9_StagesInOrder ==
    (pc = "done" /\ call.fn \in FullValidators) =>
        /\ \A j, k \in 1..Len(ret) : j < k => StageOf(ret[j]) <= StageOf(ret[k])
        /\ \A n \in 1..7 :
              SelectSeq(ret, LAMBDA e : StageOf(e) = n) = StageAlone(call.fn, call.new, n)

\* C9 witness: an authorize token that fails in six stages
C9_Witness ==
    /\ Done("ValidateAuthorizeToken")
    /\ {StageOf(ret[k]) : k \in 1..Len(ret)} = {1, 2, 4, 5, 6, 7}

\* the first ":" of a client authorization name is neither its first nor
\* its last character, and the name meets the minimal name requirements
WellFormedAuthorizationName(name) ==
    /\ name \notin {<<".">>, <<".", ".">>}
    /\ \A k \in 1..Len(name) : name[k] \notin {"/", "%"}
    /\ \E p \in 2..(Len(name) - 1) :
          name[p] = ":" /\ \A q \in 1..(p - 1) : name[q] # ":"

\* a client authorization with valid metadata but for its name was validated
AuthorizationNameCase ==
    Done("ValidateClientAuthorization") /\ call.new.ObjectMeta.Namespace = <<>>

\* C6 as stated: with metadata otherwise valid, a name other than
\* userName + ":" + clientName yields exactly one Invalid error on
\* metadata.name, and a name equal to it yields no error on metadata.name.
C6_NameIsUserColonClient ==
    AuthorizationNameCase =>
        LET on == ErrsOn(ret, <<"metadata", "name">>)
            expected == call.new.UserName \o <<":">> \o call.new.ClientName
        IN  IF call.new.ObjectMeta.Name # expected
            THEN Len(on) = 1 /\ on[1].type = "Invalid"
            ELSE on = <<>>

\* C6 as amended: with metadata otherwise valid, an empty name yields
\* exactly one error on metadata.name, Required; a name that is not empty
\* and is not userName + ":" + clientName yields exactly one, Invalid; a
\* name equal to userName + ":" + clientName yields none if it is well
\* formed and exactly one, Invalid, if it is not.
C6_NameIsUserColonClientIfWellFormed ==
    AuthorizationNameCase =>
        LET on == ErrsOn(ret, <<"metadata", "name">>)
            name == call.new.ObjectMeta.Name
            expected == call.new.UserName \o <<":">> \o call.new.ClientName
        IN  IF name = <<>> THEN Len(on) = 1 /\ on[1].type = "Required"
            ELSE IF name # expected \/ ~WellFormedAuthorizationName(name)
                 THEN Len(on) = 1 /\ on[1].type = "Invalid"
            ELSE on = <<>>

\* C6 witness: the name ":app" of a client authorization of no user for
\* the client "app" is the expected name, and is refused
C6_Witness ==
    /\ AuthorizationNameCase
    /\ call.new.UserName = <<>>
    /\ call.new.ClientName = App
    /\ call.new.ObjectMeta.Name = <<":">> \o App
    /\ Len(ErrsOn(ret, <<"metadata", "name">>)) = 1

\* every error of the list full is in the list errs
Reports(errs, full) == \A k \in 1..Len(full) : \E j \in 1..Len(errs) : errs[j] = full[k]

\* the old and the new object of an update differ in a field other than the metadata
ChangedBesidesMetadata ==
    \E f \in (DOMAIN call.new) \ {"ObjectMeta"} : call.new[f] # call.old[f]

TokenUpdates == {"ValidateAccessTokenUpdate", "ValidateAuthorizeTokenUpdate"}

====
